---- MODULE Spec2Model ----
(***************************************************************************)
(* Model of the medical-doc-assistant browser client: the page script      *)
(* (initSupabase, uploadFile, analyzeText and their helpers) running       *)
(* against the remote store (object storage, documents and analyses        *)
(* tables) and the analysis API, and of its cache worker                   *)
(* (service-worker.js) running against the Cache API and the network.      *)
(*                                                                         *)
(* An async function is a process: pc is the await it is suspended at, and *)
(* each action runs the code from one await to the next.  The outcome of   *)
(* an awaited call is an input of the action that resumes after it.        *)
(***************************************************************************)
EXTENDS Integers, Sequences, FiniteSets, TLC

\* ---------------------------------------------------------------- bounds
\* Number of clicks on the two analyze buttons (invocations of uploadFile and
\* analyzeText) in a run; a run of overlapping invocations has one more.
MaxClicks == 1
\* How many characters beyond the limit the longest text input has.
MaxOver == 1
\* Number of requests the cache worker intercepts in a run.
MaxRequests == 2

\* ------------------------------------------------------- program constants
\* 10 * 1024 * 1024, the size limit of uploadFile.
MaxFileBytes == 10485760
\* text.substring(0, 3000) in analyzeText.
TextLimit == 3000

Null == "null"
Procs == 1..(MaxClicks + 1)

\* Ids, storage paths and URLs are positive numbers; 0 stands for null/absent
\* (both are falsy in the code's tests).  A value that is an object or null is a
\* sequence of length at most one.
NoId == 0
None == <<>>
Some(x) == <<x>>

Min(a, b) == IF a < b THEN a ELSE b

\* ------------------------------------------------------------------ texts
\* A string is kept run-length encoded: a sequence of runs [ch, n], n > 0,
\* adjacent runs of different characters.  " " is whitespace.
Run(c, k) == [ch |-> c, n |-> k]

RECURSIVE TextLen(_)
TextLen(t) == IF t = <<>> THEN 0 ELSE t[1].n + TextLen(Tail(t))

\* Mutant of Trim: the input is used untrimmed.
M_TrimNothing(t) == t

\* String.prototype.trim: whitespace removed from both ends.
TrimStart(t) ==
    IF t # <<>> /\ t[1].ch = " " THEN Tail(t) ELSE t
TrimEnd(t) ==
    IF t # <<>> /\ t[Len(t)].ch = " " THEN SubSeq(t, 1, Len(t) - 1) ELSE t
Trim(t) == TrimEnd(TrimStart(t))

\* String.prototype.substring(0, k): the first k characters (all, if fewer).
RECURSIVE Substring0(_, _)
Substring0(t, k) ==
    IF t = <<>> \/ k <= 0 THEN <<>>
    ELSE IF t[1].n >= k THEN <<Run(t[1].ch, k)>>
    ELSE <<t[1]>> \o Substring0(Tail(t), k - t[1].n)

\* The contents the text area can have when Analyze Text is clicked.
Texts ==
    { <<>>,
      <<Run(" ", 2)>>,
      <<Run(" ", 1), Run("a", 5), Run(" ", 1)>>,
      <<Run("a", TextLimit)>>,
      <<Run(" ", 1), Run("a", TextLimit - 1), Run("b", 1 + MaxOver), Run(" ", 2)>> }

\* ------------------------------------------------------------------ files
\* The files the user can select (name and size are all the code reads): one of
\* exactly the size limit and one a byte larger.
Files ==
    { [name |-> "x.pdf", size |-> MaxFileBytes],
      [name |-> "z.pdf", size |-> MaxFileBytes + 1] }

\* ---------------------------------------------------------- configuration
\* window.CONFIG as the backend injects it: the feature flag, and the URL and
\* key, each absent, a placeholder of the template, or a real value.  The
\* configurations are the complete one, each single departure from it, and the
\* one with nothing set.
Config(enabled, url, key) ==
    [databaseEnabled |-> enabled, supabaseUrl |-> url, supabaseKey |-> key]
Configs ==
    { Config(TRUE, "real", "real"),
      Config(FALSE, "real", "real"),
      Config(TRUE, Null, "real"),
      Config(TRUE, "real", Null),
      Config(TRUE, "placeholder", "real"),
      Config(TRUE, "real", "placeholder"),
      Config(FALSE, Null, Null) }

VARIABLES
    config,               \* window.CONFIG
    supabaseClient,       \* Null or "client"
    supabaseInitialized,
    init,                 \* the initSupabase call: [pc, ret]
    currentFile,          \* Null or a file
    currentAnalysisData,  \* Null or the result last shown
    fileInput,            \* fileInput.files[0], Null when no file is selected
    uploadButtonDisabled,
    loading,              \* loadingIndicator is displayed
    storage,              \* objects of the bucket 'medical-documents'
    documents,            \* rows of table documents
    analyses,             \* rows of table analyses
    op,                   \* op[p]: position and locals of invocation p
    log,                  \* log[p]: the calls invocation p made, in order
    clicks                \* how many invocations this run has

\* The cache worker and the browser's cache storage.
VARIABLES
    swState,              \* the worker's lifecycle state
    caches,               \* the named caches, in the order of their creation
    pendingDeletes,       \* names whose caches.delete of activate is pending
    swLog,                \* the calls of the install and activate handlers
    ev                    \* ev[e]: the e-th intercepted request (fetch event)

vars == <<config, supabaseClient, supabaseInitialized, init, currentFile,
          currentAnalysisData, fileInput, uploadButtonDisabled, loading,
          storage, documents, analyses, op, log, clicks,
          swState, caches, pendingDeletes, swLog, ev>>

worker == <<swState, caches, pendingDeletes, swLog, ev>>
client == <<config, supabaseClient, supabaseInitialized, init, currentFile,
            currentAnalysisData, fileInput, uploadButtonDisabled, loading,
            storage, documents, analyses, op, log, clicks>>

page == <<currentFile, fileInput, uploadButtonDisabled>>
store == <<storage, documents, analyses>>
supa == <<config, supabaseClient, supabaseInitialized, init, clicks>>

\* ---------------------------------------------------------- remote store
\* What the store chooses: the id of a row it inserts and the path Date.now()
\* and the file name give (upsert: false, so a successful upload is a new path).
DocumentId(p) == 2 * p - 1
AnalysisId(p) == 2 * p
FilePath(p) == p
PublicUrl(path) == path

\* Outcome of an awaited store call: completed, { error } returned, rejected
\* (thrown), and for insert(...).select() also no error and no row returned.
\* Only a completed call changes the store.
CallOutcomes == {"ok", "error", "throw"}
InsertOutcomes == {"ok", "error", "throw", "nodata"}
\* Outcome of fetch + response.json(): OK status, non-OK status, rejected.
ApiOutcomes == {"ok", "notok", "neterr"}

\* ------------------------------------------------------------ invocations
NoFile == [name |-> "", size |-> 0]
\* The analysis JSON with its well-known optional keys ("" and 0: absent).
EmptyResult ==
    [analysis |-> "", filename |-> "", file_size |-> 0, text_length |-> 0,
     db_file_id |-> NoId, file_url |-> NoId, storage_path |-> NoId,
     analysis_db_id |-> NoId]
NoResults == [storage |-> FALSE, documents |-> FALSE, analyses |-> FALSE]

IdleOp ==
    [pc |-> "idle", kind |-> Null,
     file |-> NoFile, rawText |-> <<>>, text |-> <<>>, sentText |-> <<>>,
     fileUrl |-> NoId, dbFileId |-> NoId, storagePath |-> NoId,
     analysisDbId |-> NoId, filePath |-> NoId, textDocId |-> NoId,
     result |-> None, savedAnalysis |-> None, deleteResults |-> None]

Ev(name, outcome) == <<name, outcome>>

\* ------------------------------------------------------------ cache worker
CACHE_NAME == "meddoc-ai-v1"

\* A URL is its origin and the segments of its path; Self is the page's origin.
Self == "self"
Url(origin, path) == [origin |-> origin, path |-> path]
NoUrl == Url("", <<>>)

urlsToCache ==
    << Url(Self, <<>>),
       Url(Self, <<"static", "manifest.json">>),
       Url(Self, <<"static", "css", "apple-style.css">>),
       Url(Self, <<"static", "icons", "icon-72.png">>),
       Url(Self, <<"static", "icons", "icon-96.png">>),
       Url(Self, <<"static", "icons", "icon-128.png">>),
       Url(Self, <<"static", "icons", "icon-144.png">>),
       Url(Self, <<"static", "icons", "icon-152.png">>),
       Url(Self, <<"static", "icons", "icon-167.png">>),
       Url(Self, <<"static", "icons", "icon-180.png">>),
       Url(Self, <<"static", "icons", "icon-192.png">>),
       Url(Self, <<"static", "icons", "icon-384.png">>),
       Url(Self, <<"static", "icons", "icon-512.png">>),
       Url("cdnjs.cloudflare.com",
           <<"ajax", "libs", "font-awesome", "6.4.0", "css", "all.min.css">>),
       Url("fonts.googleapis.com",
           <<"css2?family=Inter:wght@300;400;500;600;700&display=swap">>),
       Url("cdn.jsdelivr.net", <<"npm", "@supabase", "supabase-js@2">>) >>

\* A request is its URL, method and mode; a response its URL, status, type and
\* body ("fresh": what the server answers now, "stale": an earlier answer).
Req(url, method, mode) == [url |-> url, method |-> method, mode |-> mode]
NoReq == Req(NoUrl, "", "")
Resp(url, status, type, body) ==
    [url |-> url, status |-> status, type |-> type, body |-> body]
\* The network error a rejected or undefined respondWith answer becomes.
NetworkError == Resp(NoUrl, 0, "error", "")

\* The requests of the page the worker intercepts: the page itself and a page
\* that is not in the manifest, a cross-origin script of the manifest, a
\* static asset that is not in the manifest, two cross-origin
\* assets that are not (a font, fetched with CORS, and an image, fetched
\* without), and the health check and the upload of the analysis API.
Requests ==
    { Req(Url(Self, <<>>), "GET", "navigate"),
      Req(Url(Self, <<"index.html">>), "GET", "navigate"),
      Req(Url("fonts.gstatic.com", <<"s", "inter.woff2">>), "GET", "cors"),
      Req(Url("cdn.example", <<"logo.png">>), "GET", "no-cors"),
      Req(Url("cdn.jsdelivr.net", <<"npm", "@supabase", "supabase-js@2">>),
          "GET", "no-cors"),
      Req(Url(Self, <<"static", "js", "app.js">>), "GET", "no-cors"),
      Req(Url(Self, <<"api", "health">>), "GET", "cors"),
      Req(Url(Self, <<"api", "test", "upload">>), "POST", "cors") }

\* What fetch(request) can resolve to (it can also reject): a same-origin
\* answer is basic, a cross-origin one opaque in mode no-cors and cors otherwise.
NetworkResponses(req) ==
    IF req.url.origin = Self
    THEN {Resp(req.url, 200, "basic", "fresh"), Resp(req.url, 404, "basic", "fresh")}
    ELSE IF req.mode = "no-cors" THEN {Resp(req.url, 0, "opaque", "fresh")}
    ELSE {Resp(req.url, 200, "cors", "fresh")}

\* The cache storage is a sequence of caches [name, entries] in creation order;
\* a cache holds at most one entry [url, response] for a URL.
Entry(url, response) == [url |-> url, response |-> response]
Has(cs, name) == \E i \in 1..Len(cs) : cs[i].name = name
\* caches.open(name): the cache is created when it does not exist.
Open(cs, name) ==
    IF Has(cs, name) THEN cs ELSE Append(cs, [name |-> name, entries |-> {}])
\* caches.delete(name)
Delete(cs, name) == SelectSeq(cs, LAMBDA c : c.name # name)
\* cache.put(request, response) on the cache `name`.
Put(cs, name, url, response) ==
    [i \in 1..Len(cs) |->
        IF cs[i].name = name
        THEN [cs[i] EXCEPT !.entries =
                  {en \in @ : en.url # url} \cup {Entry(url, response)}]
        ELSE cs[i]]
\* caches.match(request): the responses stored for a GET of the URL, cache by
\* cache; the first is the match, and none is undefined.
Matches(cs, req) ==
    IF req.method # "GET" THEN <<>>
    ELSE LET hit(c) == \E en \in c.entries : en.url = req.url
             found == SelectSeq(cs, hit) IN
         [i \in 1..Len(found) |->
             (CHOOSE en \in found[i].entries : en.url = req.url).response]

\* The name of the cache of an earlier version, and what the cache storage can
\* hold when the worker is installed: nothing, a cache of the earlier version,
\* a cache of the current name (an update that did not change CACHE_NAME), or
\* both.  Such a cache holds the page and an answer of the health check.
OLD_CACHE_NAME == "meddoc-ai-v0"
OldEntries ==
    { Entry(Url(Self, <<>>), Resp(Url(Self, <<>>), 200, "basic", "stale")),
      Entry(Url(Self, <<"api", "health">>),
            Resp(Url(Self, <<"api", "health">>), 200, "basic", "stale")) }
InitialCaches ==
    { <<>>,
      <<[name |-> OLD_CACHE_NAME, entries |-> OldEntries]>>,
      <<[name |-> CACHE_NAME, entries |-> OldEntries]>>,
      <<[name |-> OLD_CACHE_NAME, entries |-> OldEntries],
        [name |-> CACHE_NAME, entries |-> OldEntries]>> }

ReqSlots == 1..MaxRequests
IdleEv ==
    [pc |-> "idle", req |-> NoReq, navFetch |-> FALSE, net |-> None,
     answer |-> None, put |-> "none", log |-> <<>>]

\* No worker is registered: the page runs without it.
NoWorker ==
    /\ swState = "parsed"
    /\ caches = <<>>
    /\ pendingDeletes = {}
    /\ swLog = <<>>
    /\ ev = [e \in ReqSlots |-> IdleEv]

\* The page as the script's top level leaves it, for a run of n invocations.
InitWith(n) ==
    /\ clicks = n
    /\ config \in Configs
    /\ supabaseClient = Null
    /\ supabaseInitialized = FALSE
    /\ init = [pc |-> "start", ret |-> "none"]
    /\ currentFile = None
    /\ currentAnalysisData = None
    /\ fileInput = None
    /\ uploadButtonDisabled = TRUE
    /\ loading = FALSE
    /\ storage = {}
    /\ documents = {}
    /\ analyses = {}
    /\ op = [p \in Procs |-> IdleOp]
    /\ log = [p \in Procs |-> <<>>]

Init == InitWith(MaxClicks) /\ NoWorker

\* Invocation p is the next click: the earlier ones were made.
NextClick(p) ==
    /\ p <= clicks
    /\ op[p].pc = "idle"
    /\ \A q \in 1..(p - 1) : op[q].pc # "idle"

\* ------------------------------------------------------------ initSupabase
\* Mutant of ConfigVerdict: the test for placeholder values is missing.
M_ConfigVerdictNoPlaceholder(cfg) ==
    IF ~cfg.databaseEnabled THEN "disabled"
    ELSE IF cfg.supabaseUrl = Null \/ cfg.supabaseKey = Null THEN "nocreds"
    ELSE "ok"

\* The three configuration tests of initSupabase, in order.
ConfigVerdict(cfg) ==
    IF ~cfg.databaseEnabled THEN "disabled"
    ELSE IF cfg.supabaseUrl = Null \/ cfg.supabaseKey = Null THEN "nocreds"
    ELSE IF cfg.supabaseUrl = "placeholder" \/ cfg.supabaseKey = "placeholder"
         THEN "placeholder"
    ELSE "ok"

\* From the configuration tests to the connection test (or a return false).
InitCheckConfig ==
    IF ConfigVerdict(config) # "ok"
    THEN /\ init' = [pc |-> "done", ret |-> "false"]
         /\ UNCHANGED supabaseClient
    ELSE /\ supabaseClient' = "client"
         /\ init' = [pc |-> "connTest", ret |-> "none"]

\* DOMContentLoaded calls initSupabase(): it runs to its first await.
InitSupabaseStart ==
    /\ init.pc = "start"
    /\ \E lib \in {"loaded", "missing"} :
         IF lib = "missing"
         THEN /\ init' = [pc |-> "loadLib", ret |-> "none"]
              /\ UNCHANGED supabaseClient
         ELSE InitCheckConfig
    /\ UNCHANGED <<config, supabaseInitialized, currentAnalysisData, loading,
                   page, store, op, log, clicks, worker>>

\* await loadSupabaseLibrary() settles.
InitLoadLibDone ==
    /\ init.pc = "loadLib"
    /\ \E o \in {"ok", "reject", "noglobal"} :
         CASE o = "ok" -> InitCheckConfig
           [] o = "reject" -> /\ init' = [pc |-> "done", ret |-> "false"]
                              /\ UNCHANGED supabaseClient
           [] o = "noglobal" -> /\ init' = [pc |-> "done", ret |-> "false"]
                                /\ UNCHANGED supabaseClient
    /\ UNCHANGED <<config, supabaseInitialized, currentAnalysisData, loading,
                   page, store, op, log, clicks, worker>>

\* The connection test query settles.
InitConnTestDone ==
    /\ init.pc = "connTest"
    /\ \E o \in CallOutcomes :
         /\ supabaseInitialized' = (o = "ok")
         /\ init' = [pc |-> "done", ret |-> IF o = "ok" THEN "true" ELSE "false"]
    /\ UNCHANGED <<config, supabaseClient, currentAnalysisData, loading,
                   page, store, op, log, clicks, worker>>

\* ---------------------------------------------------------- file selection
\* The user picks or drops a file: handleFiles and updateFileInfo.
handleFiles(f) ==
    /\ init.pc # "start"
    /\ fileInput' = Some(f)
    /\ currentFile' = Some(f)
    /\ uploadButtonDisabled' = FALSE
    /\ UNCHANGED <<worker, supa, currentAnalysisData, loading, store, op, log>>

\* The file dialog is dismissed and the browser empties fileInput.files; the
\* change listener calls handleFiles only for a non-empty list.
fileInputEmptied ==
    /\ init.pc # "start"
    /\ fileInput # None
    /\ fileInput' = None
    /\ UNCHANGED <<worker, supa, currentFile, uploadButtonDisabled, currentAnalysisData,
                   loading, store, op, log>>

\* -------------------------------------------------------------- UI helpers
showLoading == TRUE
hideLoading == FALSE
\* showResults keeps the data for printing.
showResults(data) == Some(data)
\* clearFile: the file input emptied, the button disabled, currentFile null.
clearFile == [fileInput |-> None, uploadButtonDisabled |-> TRUE, currentFile |-> None]

\* A call is logged when it is issued and its outcome when it settles.
Issue(l, name) == Append(l, Ev(name, "pending"))
Settle(l, o) == [l EXCEPT ![Len(l)] = Ev(l[Len(l)][1], o)]
Toast(l, type) == Append(l, Ev("showToast", type))

\* The invocation suspends at its next await; the page is untouched.
Suspend(p, r, l) ==
    /\ op' = [op EXCEPT ![p] = r]
    /\ log' = [log EXCEPT ![p] = l]
    /\ UNCHANGED <<currentAnalysisData, loading, page>>

\* An early return before showLoading.
Reject(p, r, l) ==
    /\ op' = [op EXCEPT ![p] = [r EXCEPT !.pc = "done"]]
    /\ log' = [log EXCEPT ![p] = Toast(l, "error")]
    /\ UNCHANGED <<currentAnalysisData, loading, page>>

\* Mutant of AnalysisFailed: the file selection is cleared as after a success.
M_AnalysisFailedClearsFile(p, r, l) ==
    /\ loading' = hideLoading
    /\ op' = [op EXCEPT ![p] = [r EXCEPT !.pc = "done"]]
    /\ log' = [log EXCEPT ![p] = Toast(Append(l, Ev("hideLoading", "")), "error")]
    /\ fileInput' = None
    /\ uploadButtonDisabled' = TRUE
    /\ currentFile' = None
    /\ UNCHANGED currentAnalysisData

\* Mutant of AnalysisFailed: the loading indicator is left displayed.
M_AnalysisFailedKeepsLoading(p, r, l) ==
    /\ op' = [op EXCEPT ![p] = [r EXCEPT !.pc = "done"]]
    /\ log' = [log EXCEPT ![p] = Toast(l, "error")]
    /\ UNCHANGED <<currentAnalysisData, loading, page>>

\* The else branch and the catch of Step 2: hideLoading, then an error toast.
AnalysisFailed(p, r, l) ==
    /\ loading' = hideLoading
    /\ op' = [op EXCEPT ![p] = [r EXCEPT !.pc = "done"]]
    /\ log' = [log EXCEPT ![p] = Toast(Append(l, Ev("hideLoading", "")), "error")]
    /\ UNCHANGED <<currentAnalysisData, page>>

\* The name of the file that is selected ("": none).
Selected == IF currentFile = None THEN "" ELSE currentFile[1].name

\* Mutant of FileShown: the loading indicator stays while another invocation
\* is in flight.
M_FileShownWaitsForOthers(p, r, l) ==
    /\ currentAnalysisData' = showResults(r.result[1])
    /\ loading' = \E q \in Procs \ {p} : op[q].pc \notin {"idle", "done"}
    /\ fileInput' = clearFile.fileInput
    /\ uploadButtonDisabled' = clearFile.uploadButtonDisabled
    /\ currentFile' = clearFile.currentFile
    /\ op' = [op EXCEPT ![p] = [r EXCEPT !.pc = "done"]]
    /\ log' = [log EXCEPT ![p] = l \o <<Ev("showResults", ""), Ev("hideLoading", ""),
                                        Ev("clearFile", Selected)>>]

\* The end of a successful uploadFile: showResults, hideLoading, clearFile.
FileShown(p, r, l) ==
    /\ currentAnalysisData' = showResults(r.result[1])
    /\ loading' = hideLoading
    /\ fileInput' = clearFile.fileInput
    /\ uploadButtonDisabled' = clearFile.uploadButtonDisabled
    /\ currentFile' = clearFile.currentFile
    /\ op' = [op EXCEPT ![p] = [r EXCEPT !.pc = "done"]]
    /\ log' = [log EXCEPT ![p] = l \o <<Ev("showResults", ""), Ev("hideLoading", ""),
                                        Ev("clearFile", Selected)>>]

\* -------------------------------------------------------------- uploadFile
\* Mutant of TooLarge: a file of exactly the limit is rejected too.
M_TooLargeInclusive(file) == file.size >= MaxFileBytes

\* The size test of uploadFile.
TooLarge(file) == file.size > MaxFileBytes

\* Step 2 starts: the POST of the file to the analysis API.
PostFile(p, r, l) == Suspend(p, [r EXCEPT !.pc = "apiUpload"], Issue(l, "api.upload"))

\* A click on the enabled upload button: uploadFile up to its first await.
UploadFileStart(p) ==
    /\ init.pc # "start"
    /\ NextClick(p)
    /\ ~uploadButtonDisabled
    /\ LET r == [op[p] EXCEPT !.kind = "file"] IN
       IF fileInput = None THEN Reject(p, r, log[p])
       ELSE LET file == fileInput[1]
                rf == [r EXCEPT !.file = file] IN
            IF TooLarge(file) THEN Reject(p, rf, log[p])
            ELSE /\ loading' = showLoading
                 /\ UNCHANGED <<currentAnalysisData, page>>
                 /\ LET l == Append(log[p], Ev("showLoading", "")) IN
                    IF supabaseInitialized
                    THEN \* uploadToDatabase up to the storage upload
                         /\ op' = [op EXCEPT ![p] = [rf EXCEPT !.pc = "storageUpload",
                                                               !.filePath = FilePath(p)]]
                         /\ log' = [log EXCEPT ![p] = Issue(l, "storage.upload")]
                    ELSE /\ op' = [op EXCEPT ![p] = [rf EXCEPT !.pc = "apiUpload"]]
                         /\ log' = [log EXCEPT ![p] = Issue(l, "api.upload")]
    /\ UNCHANGED <<worker, supa, store>>

\* uploadToDatabase: the storage upload settles.
StorageUploadDone(p) ==
    /\ op[p].pc = "storageUpload"
    /\ \E o \in CallOutcomes :
         LET l == Settle(log[p], o) IN
         IF o = "ok"
         THEN /\ storage' = storage \cup {op[p].filePath}
              /\ Suspend(p, [op[p] EXCEPT !.pc = "documentsInsert"],
                         Issue(l, "documents.insert"))
         ELSE \* throw uploadError, caught in uploadFile: toast, continue
              /\ UNCHANGED storage
              /\ PostFile(p, op[p], Toast(l, "error"))
    /\ UNCHANGED <<worker, supa, documents, analyses>>

\* The row uploadToDatabase inserts into documents.
FileDocument(p, r) ==
    [id |-> DocumentId(p), filename |-> r.file.name, file_size |-> r.file.size,
     file_url |-> PublicUrl(r.filePath), storage_path |-> r.filePath,
     text_content |-> <<>>]

\* uploadToDatabase: the documents insert settles.
DocumentsInsertDone(p) ==
    /\ op[p].pc = "documentsInsert"
    /\ \E o \in InsertOutcomes :
         LET l == Settle(log[p], o)
             row == FileDocument(p, op[p]) IN
         /\ documents' = IF o = "ok" THEN documents \cup {row} ELSE documents
         /\ IF o = "ok"
            THEN PostFile(p, [op[p] EXCEPT !.fileUrl = PublicUrl(op[p].filePath),
                                           !.dbFileId = row.id,
                                           !.storagePath = op[p].filePath], l)
            ELSE PostFile(p, op[p], Toast(l, "error"))
    /\ UNCHANGED <<worker, supa, storage, analyses>>

\* The JSON the analysis API answers an upload with.
FilePayload(file) ==
    [EmptyResult EXCEPT !.analysis = "OK", !.filename = file.name,
                        !.file_size = file.size]

\* analysisText.length of the analysis text the API answers with.
StrLen(str) == IF str = "OK" THEN 2 ELSE 0

\* The row saveAnalysisToDatabase inserts into analyses.
AnalysisRow(p, analysisData, fileId) ==
    [id |-> AnalysisId(p),
     document_id |-> fileId,
     filename |-> IF analysisData.filename # "" THEN analysisData.filename
                  ELSE "Document Analysis",
     file_size |-> analysisData.file_size,
     text_length |-> IF analysisData.text_length # 0 THEN analysisData.text_length
                     ELSE StrLen(analysisData.analysis),
     analysis_type |-> IF fileId # NoId THEN "document" ELSE "text"]

\* Lines 554-558: the database info added to the result.
WithDbInfo(r, result) ==
    IF r.dbFileId # NoId
    THEN [result EXCEPT !.db_file_id = r.dbFileId, !.file_url = r.fileUrl,
                        !.storage_path = r.storagePath]
    ELSE result

\* Mutant of SaveWanted: Step 3 runs whether or not Step 1 gave a file id.
M_SaveWantedWithoutFileId(r) == supabaseInitialized

\* The test that guards Step 3 of uploadFile.
SaveWanted(r) == supabaseInitialized /\ r.dbFileId # NoId

\* Step 2: fetch and response.json() settle.
ApiUploadDone(p) ==
    /\ op[p].pc = "apiUpload"
    /\ \E o \in ApiOutcomes :
         LET l == Settle(log[p], o) IN
         IF o # "ok" THEN AnalysisFailed(p, op[p], l)
         ELSE LET result == WithDbInfo(op[p], FilePayload(op[p].file))
                  r == [op[p] EXCEPT !.result = Some(result)] IN
              IF SaveWanted(r)
              THEN Suspend(p, [r EXCEPT !.pc = "analysesInsert"],
                           Issue(l, "analyses.insert"))
              ELSE FileShown(p, r, l)
    /\ UNCHANGED <<worker, supa, store>>

\* Mutant of AnalysesInsertDone: a failed insert starts the cleanup of the
\* document row.
M_AnalysesInsertDoneCleansUp(p) ==
    /\ op[p].pc = "analysesInsert"
    /\ \E o \in InsertOutcomes :
         LET l == Settle(log[p], o)
             row == AnalysisRow(p, op[p].result[1], op[p].dbFileId) IN
         /\ analyses' = IF o = "ok" THEN analyses \cup {row} ELSE analyses
         /\ IF o = "ok"
            THEN Suspend(p, [op[p] EXCEPT !.pc = "delay",
                                          !.savedAnalysis = Some(row),
                                          !.result = Some([@[1] EXCEPT !.analysis_db_id = row.id]),
                                          !.analysisDbId = row.id],
                         Issue(l, "delay"))
            ELSE Suspend(p, [op[p] EXCEPT !.pc = "documentsDelete",
                                          !.deleteResults = Some(NoResults)],
                         Issue(Toast(l, "error"), "documents.delete"))
    /\ UNCHANGED <<worker, supa, storage, documents>>

\* Mutant of AnalysesInsertDone: the cleanup starts without the delay.
M_AnalysesInsertDoneNoDelay(p) ==
    /\ op[p].pc = "analysesInsert"
    /\ \E o \in InsertOutcomes :
         LET l == Settle(log[p], o)
             row == AnalysisRow(p, op[p].result[1], op[p].dbFileId) IN
         /\ analyses' = IF o = "ok" THEN analyses \cup {row} ELSE analyses
         /\ IF o = "ok"
            THEN Suspend(p, [op[p] EXCEPT !.pc = "storageRemove",
                                          !.savedAnalysis = Some(row),
                                          !.result = Some([@[1] EXCEPT !.analysis_db_id = row.id]),
                                          !.analysisDbId = row.id,
                                          !.deleteResults = Some(NoResults)],
                         Issue(l, "storage.remove"))
            ELSE FileShown(p, op[p], Toast(l, "error"))
    /\ UNCHANGED <<worker, supa, storage, documents>>

\* Step 3: the analyses insert of saveAnalysisToDatabase settles.
AnalysesInsertDone(p) ==
    /\ op[p].pc = "analysesInsert"
    /\ \E o \in InsertOutcomes :
         LET l == Settle(log[p], o)
             row == AnalysisRow(p, op[p].result[1], op[p].dbFileId) IN
         /\ analyses' = IF o = "ok" THEN analyses \cup {row} ELSE analyses
         /\ IF o = "ok"
            THEN Suspend(p, [op[p] EXCEPT !.pc = "delay",
                                          !.savedAnalysis = Some(row),
                                          !.result = Some([@[1] EXCEPT !.analysis_db_id = row.id]),
                                          !.analysisDbId = row.id],
                         Issue(l, "delay"))
            ELSE \* catch (analysisError): toast, then the result is shown
                 FileShown(p, op[p], Toast(l, "error"))
    /\ UNCHANGED <<worker, supa, storage, documents>>

\* Lines 577-592: the summary toast, and the ids removed from the result.
CleanupDone(p, r, l) ==
    LET res == r.deleteResults[1]
        deleted == res.storage \/ res.documents \/ res.analyses
        stripped == [r.result[1] EXCEPT !.db_file_id = NoId, !.analysis_db_id = NoId,
                                        !.file_url = NoId, !.storage_path = NoId] IN
    FileShown(p, [r EXCEPT !.result = Some(stripped)],
              IF deleted THEN Toast(l, "success") ELSE l)

\* Mutant of DeleteFrom: a deletion that did not complete ends the cleanup.
M_DeleteFromStopsOnFailure(p, r, l, stage) ==
    IF stage <= 1 /\ r.storagePath # NoId
    THEN Suspend(p, [r EXCEPT !.pc = "storageRemove"], Issue(l, "storage.remove"))
    ELSE IF stage = 2 /\ ~r.deleteResults[1].storage
    THEN CleanupDone(p, r, l)
    ELSE IF stage <= 2 /\ r.analysisDbId # NoId
    THEN Suspend(p, [r EXCEPT !.pc = "analysesDelete"], Issue(l, "analyses.delete"))
    ELSE IF stage <= 3 /\ r.dbFileId # NoId
    THEN Suspend(p, [r EXCEPT !.pc = "documentsDelete"], Issue(l, "documents.delete"))
    ELSE CleanupDone(p, r, l)

\* Mutant of DeleteFrom: the document row is deleted before the analysis row.
M_DeleteFromDocumentsFirst(p, r, l, stage) ==
    IF stage <= 1 /\ r.storagePath # NoId
    THEN Suspend(p, [r EXCEPT !.pc = "storageRemove"], Issue(l, "storage.remove"))
    ELSE IF stage <= 2 /\ r.dbFileId # NoId
    THEN Suspend(p, [r EXCEPT !.pc = "documentsDelete"], Issue(l, "documents.delete"))
    ELSE IF stage = 4 /\ r.analysisDbId # NoId /\ ~r.deleteResults[1].analyses
                      /\ ~(\E i \in 1..Len(l) : l[i][1] = "analyses.delete")
    THEN Suspend(p, [r EXCEPT !.pc = "analysesDelete"], Issue(l, "analyses.delete"))
    ELSE CleanupDone(p, r, l)

\* Mutant of DeleteFrom: the documents delete is left out.
M_DeleteFromSkipsDocuments(p, r, l, stage) ==
    IF stage <= 1 /\ r.storagePath # NoId
    THEN Suspend(p, [r EXCEPT !.pc = "storageRemove"], Issue(l, "storage.remove"))
    ELSE IF stage <= 2 /\ r.analysisDbId # NoId
    THEN Suspend(p, [r EXCEPT !.pc = "analysesDelete"], Issue(l, "analyses.delete"))
    ELSE FileShown(p, [r EXCEPT !.result = Some([@[1] EXCEPT
                           !.db_file_id = NoId, !.analysis_db_id = NoId,
                           !.file_url = NoId, !.storage_path = NoId])], l)

\* deleteAllRecords from its deletion number `stage` on: the next deletion whose
\* path or id is present is issued, and after the last one the results return.
DeleteFrom(p, r, l, stage) ==
    IF stage <= 1 /\ r.storagePath # NoId
    THEN Suspend(p, [r EXCEPT !.pc = "storageRemove"], Issue(l, "storage.remove"))
    ELSE IF stage <= 2 /\ r.analysisDbId # NoId
    THEN Suspend(p, [r EXCEPT !.pc = "analysesDelete"], Issue(l, "analyses.delete"))
    ELSE IF stage <= 3 /\ r.dbFileId # NoId
    THEN Suspend(p, [r EXCEPT !.pc = "documentsDelete"], Issue(l, "documents.delete"))
    ELSE CleanupDone(p, r, l)

\* The settle delay elapses and deleteAllRecords starts.
DelayDone(p) ==
    /\ op[p].pc = "delay"
    /\ DeleteFrom(p, [op[p] EXCEPT !.deleteResults = Some(NoResults)],
                  Settle(log[p], "ok"), 1)
    /\ UNCHANGED <<worker, supa, store>>

\* deleteAllRecords: the storage removal settles.
StorageRemoveDone(p) ==
    /\ op[p].pc = "storageRemove"
    /\ \E o \in CallOutcomes :
         /\ storage' = IF o = "ok" THEN storage \ {op[p].storagePath} ELSE storage
         /\ DeleteFrom(p, [op[p] EXCEPT !.deleteResults =
                                 Some([@[1] EXCEPT !.storage = (o = "ok")])],
                       Settle(log[p], o), 2)
    /\ UNCHANGED <<worker, supa, documents, analyses>>

\* deleteAllRecords: the analyses delete settles.
AnalysesDeleteDone(p) ==
    /\ op[p].pc = "analysesDelete"
    /\ \E o \in CallOutcomes :
         /\ analyses' = IF o = "ok" THEN {a \in analyses : a.id # op[p].analysisDbId}
                        ELSE analyses
         /\ DeleteFrom(p, [op[p] EXCEPT !.deleteResults =
                                 Some([@[1] EXCEPT !.analyses = (o = "ok")])],
                       Settle(log[p], o), 3)
    /\ UNCHANGED <<worker, supa, storage, documents>>

\* deleteAllRecords: the documents delete settles.
DocumentsDeleteDone(p) ==
    /\ op[p].pc = "documentsDelete"
    /\ \E o \in CallOutcomes :
         /\ documents' = IF o = "ok" THEN {d \in documents : d.id # op[p].dbFileId}
                         ELSE documents
         /\ DeleteFrom(p, [op[p] EXCEPT !.deleteResults =
                                 Some([@[1] EXCEPT !.documents = (o = "ok")])],
                       Settle(log[p], o), 4)
    /\ UNCHANGED <<worker, supa, storage, analyses>>

\* ------------------------------------------------------------- analyzeText
\* Mutant of TextShown: a result that is already displayed is kept.
M_TextShownFirstWins(p, r, l) ==
    /\ currentAnalysisData' = IF currentAnalysisData = None
                              THEN showResults(r.result[1]) ELSE currentAnalysisData
    /\ loading' = hideLoading
    /\ UNCHANGED page
    /\ op' = [op EXCEPT ![p] = [r EXCEPT !.pc = "done"]]
    /\ log' = [log EXCEPT ![p] = l \o <<Ev("showResults", ""), Ev("hideLoading", "")>>]

\* The end of a successful analyzeText: showResults, hideLoading.
TextShown(p, r, l) ==
    /\ currentAnalysisData' = showResults(r.result[1])
    /\ loading' = hideLoading
    /\ UNCHANGED page
    /\ op' = [op EXCEPT ![p] = [r EXCEPT !.pc = "done"]]
    /\ log' = [log EXCEPT ![p] = l \o <<Ev("showResults", ""), Ev("hideLoading", "")>>]

\* Mutant of SentText: the text is sent untruncated.
M_SentTextWhole(text) == text

\* The text analyzeText puts in the request body.
SentText(text) == Substring0(text, TextLimit)

\* A click on Analyze Text with t in the text area: up to the fetch.
AnalyzeTextStart(p, t) ==
    /\ init.pc # "start"
    /\ NextClick(p)
    /\ LET text == Trim(t)
           r == [op[p] EXCEPT !.kind = "text", !.rawText = t, !.text = text] IN
       IF text = <<>> THEN Reject(p, r, log[p])
       ELSE /\ loading' = showLoading
            /\ UNCHANGED <<currentAnalysisData, page>>
            /\ op' = [op EXCEPT ![p] = [r EXCEPT !.pc = "apiText",
                                                 !.sentText = SentText(text)]]
            /\ log' = [log EXCEPT ![p] =
                         Issue(Append(log[p], Ev("showLoading", "")), "api.text")]
    /\ UNCHANGED <<worker, supa, store>>

\* The JSON the analysis API answers a text with.
TextPayload(sent) ==
    [EmptyResult EXCEPT !.analysis = "OK", !.text_length = TextLen(sent)]

\* fetch and response.json() of analyzeText settle.
ApiTextDone(p) ==
    /\ op[p].pc = "apiText"
    /\ \E o \in ApiOutcomes :
         LET l == Settle(log[p], o) IN
         IF o # "ok" THEN AnalysisFailed(p, op[p], l)
         ELSE LET r == [op[p] EXCEPT !.result = Some(TextPayload(op[p].sentText))] IN
              IF supabaseInitialized
              THEN \* saveTextAnalysisToDatabase(result, text) up to its insert
                   Suspend(p, [r EXCEPT !.pc = "textDocumentsInsert"],
                           Issue(l, "documents.insert"))
              ELSE TextShown(p, r, l)
    /\ UNCHANGED <<worker, supa, store>>

\* Mutant of TextDocument: the row holds the text that was sent to the API.
M_TextDocumentSent(p, originalText) ==
    [id |-> DocumentId(p), filename |-> "text-input.txt",
     file_size |-> TextLen(SentText(originalText)), file_url |-> NoId,
     storage_path |-> NoId, text_content |-> SentText(originalText)]

\* The row saveTextAnalysisToDatabase inserts into documents.
TextDocument(p, originalText) ==
    [id |-> DocumentId(p), filename |-> "text-input.txt",
     file_size |-> TextLen(originalText), file_url |-> NoId, storage_path |-> NoId,
     text_content |-> originalText]

\* saveTextAnalysisToDatabase: the documents insert settles.
TextDocumentsInsertDone(p) ==
    /\ op[p].pc = "textDocumentsInsert"
    /\ \E o \in InsertOutcomes :
         LET l == Settle(log[p], o)
             row == TextDocument(p, op[p].text) IN
         /\ documents' = IF o = "ok" THEN documents \cup {row} ELSE documents
         /\ IF o = "ok"
            THEN Suspend(p, [op[p] EXCEPT !.pc = "textAnalysesInsert",
                                          !.textDocId = row.id,
                                          !.result = Some([@[1] EXCEPT
                                               !.filename = row.filename,
                                               !.file_size = row.file_size,
                                               !.text_length = TextLen(op[p].text)])],
                         Issue(l, "analyses.insert"))
            ELSE TextShown(p, op[p], Toast(l, "error"))
    /\ UNCHANGED <<worker, supa, storage, analyses>>

\* Mutant of TextAnalysesInsertDone: a failed insert ends the operation as a
\* failed analysis does.
M_TextAnalysesInsertDoneAborts(p) ==
    /\ op[p].pc = "textAnalysesInsert"
    /\ \E o \in InsertOutcomes :
         LET l == Settle(log[p], o)
             row == AnalysisRow(p, op[p].result[1], op[p].textDocId) IN
         /\ analyses' = IF o = "ok" THEN analyses \cup {row} ELSE analyses
         /\ IF o = "ok"
            THEN Suspend(p, [op[p] EXCEPT !.pc = "textDelay",
                                          !.savedAnalysis = Some(row),
                                          !.result = Some([@[1] EXCEPT !.analysis_db_id = row.id])],
                         Issue(l, "delay"))
            ELSE AnalysisFailed(p, op[p], l)
    /\ UNCHANGED <<worker, supa, storage, documents>>

\* saveAnalysisToDatabase, called for a text: the analyses insert settles.
TextAnalysesInsertDone(p) ==
    /\ op[p].pc = "textAnalysesInsert"
    /\ \E o \in InsertOutcomes :
         LET l == Settle(log[p], o)
             row == AnalysisRow(p, op[p].result[1], op[p].textDocId) IN
         /\ analyses' = IF o = "ok" THEN analyses \cup {row} ELSE analyses
         /\ IF o = "ok"
            THEN Suspend(p, [op[p] EXCEPT !.pc = "textDelay",
                                          !.savedAnalysis = Some(row),
                                          !.result = Some([@[1] EXCEPT !.analysis_db_id = row.id])],
                         Issue(l, "delay"))
            ELSE TextShown(p, op[p], Toast(l, "error"))
    /\ UNCHANGED <<worker, supa, storage, documents>>

\* Line 684: the database id removed from the result, which is then shown.
TextCleanupDone(p, r, l) ==
    TextShown(p, [r EXCEPT !.result = Some([@[1] EXCEPT !.analysis_db_id = NoId])], l)

\* The settle delay of analyzeText elapses.
TextDelayDone(p) ==
    /\ op[p].pc = "textDelay"
    /\ LET l == Settle(log[p], "ok") IN
       IF op[p].savedAnalysis[1].document_id # NoId
       THEN Suspend(p, [op[p] EXCEPT !.pc = "textAnalysesDelete"],
                    Issue(l, "analyses.delete"))
       ELSE TextCleanupDone(p, op[p], l)
    /\ UNCHANGED <<worker, supa, store>>

\* analyzeText: the analyses delete settles (a returned error is not read).
TextAnalysesDeleteDone(p) ==
    /\ op[p].pc = "textAnalysesDelete"
    /\ \E o \in CallOutcomes :
         LET l == Settle(log[p], o) IN
         /\ analyses' = IF o = "ok"
                        THEN {a \in analyses : a.id # op[p].savedAnalysis[1].id}
                        ELSE analyses
         /\ IF o = "throw"
            THEN TextShown(p, op[p], Toast(l, "error"))
            ELSE Suspend(p, [op[p] EXCEPT !.pc = "textDocumentsDelete"],
                         Issue(l, "documents.delete"))
    /\ UNCHANGED <<worker, supa, storage, documents>>

\* analyzeText: the documents delete settles (a returned error is not read).
TextDocumentsDeleteDone(p) ==
    /\ op[p].pc = "textDocumentsDelete"
    /\ \E o \in CallOutcomes :
         LET l == Settle(log[p], o) IN
         /\ documents' = IF o = "ok"
                         THEN {d \in documents : d.id # op[p].savedAnalysis[1].document_id}
                         ELSE documents
         /\ IF o = "throw"
            THEN TextShown(p, op[p], Toast(l, "error"))
            ELSE TextCleanupDone(p, op[p], Toast(l, "success"))
    /\ UNCHANGED <<worker, supa, storage, analyses>>

\* ------------------------------------------------------------ specification
Next ==
    \/ InitSupabaseStart
    \/ InitLoadLibDone
    \/ InitConnTestDone
    \/ \E f \in Files : handleFiles(f)
    \/ fileInputEmptied
    \/ \E p \in Procs : UploadFileStart(p)
    \/ \E p \in Procs : StorageUploadDone(p)
    \/ \E p \in Procs : DocumentsInsertDone(p)
    \/ \E p \in Procs : ApiUploadDone(p)
    \/ \E p \in Procs : AnalysesInsertDone(p)
    \/ \E p \in Procs : DelayDone(p)
    \/ \E p \in Procs : StorageRemoveDone(p)
    \/ \E p \in Procs : AnalysesDeleteDone(p)
    \/ \E p \in Procs : DocumentsDeleteDone(p)
    \/ \E p \in Procs, t \in Texts : AnalyzeTextStart(p, t)
    \/ \E p \in Procs : ApiTextDone(p)
    \/ \E p \in Procs : TextDocumentsInsertDone(p)
    \/ \E p \in Procs : TextAnalysesInsertDone(p)
    \/ \E p \in Procs : TextDelayDone(p)
    \/ \E p \in Procs : TextAnalysesDeleteDone(p)
    \/ \E p \in Procs : TextDocumentsDeleteDone(p)

Spec == Init /\ [][Next]_vars

\* The steps of invocation p that resume it after an await.
Resume(p) ==
    \/ StorageUploadDone(p)
    \/ DocumentsInsertDone(p)
    \/ ApiUploadDone(p)
    \/ AnalysesInsertDone(p)
    \/ DelayDone(p)
    \/ StorageRemoveDone(p)
    \/ AnalysesDeleteDone(p)
    \/ DocumentsDeleteDone(p)
    \/ ApiTextDone(p)
    \/ TextDocumentsInsertDone(p)
    \/ TextAnalysesInsertDone(p)
    \/ TextDelayDone(p)
    \/ TextAnalysesDeleteDone(p)
    \/ TextDocumentsDeleteDone(p)

\* Every awaited call settles and the continuation of a settled await runs: the
\* store and API calls have no timeout, but none is left pending for ever.  An
\* invocation makes finitely many calls, so fairness of the resumptions taken
\* together resumes each of them.
FairSpec == Spec /\ WF_vars(\E p \in Procs : Resume(p))

\* Two clicks in a run: the second can come while the first invocation is
\* suspended at an await (nothing disables the buttons during an analysis).
OverlapInit == InitWith(2) /\ NoWorker
OverlapSpec == OverlapInit /\ [][Next]_vars

\* ------------------------------------------------- cache worker: install
\* cache.addAll(urls): each URL is fetched (mode cors) and, when all answered
\* OK, every answer is stored.
RECURSIVE AddAll(_, _, _)
AddAll(cs, name, urls) ==
    IF urls = <<>> THEN cs
    ELSE LET u == Head(urls)
             r == Resp(u, 200, IF u.origin = Self THEN "basic" ELSE "cors", "fresh")
         IN AddAll(Put(cs, name, u, r), name, Tail(urls))

\* The install event: caches.open(CACHE_NAME), then cache.addAll is issued.
InstallStart ==
    /\ swState = "parsed"
    /\ swState' = "installing"
    /\ caches' = Open(caches, CACHE_NAME)
    /\ swLog' = <<Ev("caches.open", "ok"), Ev("cache.addAll", "pending")>>
    /\ UNCHANGED <<pendingDeletes, ev, client>>

\* cache.addAll settles: resolved, skipWaiting() is called and the install has
\* completed; rejected, the install has failed and the worker is discarded.
AddAllDone ==
    /\ swState = "installing"
    /\ \E o \in {"ok", "fail"} :
         IF o = "ok"
         THEN /\ caches' = AddAll(caches, CACHE_NAME, urlsToCache)
              /\ swLog' = Append(Settle(swLog, "ok"), Ev("skipWaiting", ""))
              /\ swState' = "installed"
         ELSE /\ swLog' = Settle(swLog, "fail")
              /\ swState' = "redundant"
              /\ UNCHANGED caches
    /\ UNCHANGED <<pendingDeletes, ev, client>>

\* ------------------------------------------------ cache worker: activate
\* Mutant of ShouldDelete: every cache is deleted.
M_ShouldDeleteAll(cacheName) == TRUE

\* The test of the activate handler.
ShouldDelete(cacheName) == cacheName # CACHE_NAME

\* The activate event (skipWaiting was called, so the worker does not wait):
\* caches.keys() resolves and caches.delete is issued for each old name.
ActivateStart ==
    /\ swState = "installed"
    /\ swState' = "activating"
    /\ pendingDeletes' = {caches[i].name : i \in {j \in 1..Len(caches) :
                                                  ShouldDelete(caches[j].name)}}
    /\ swLog' = Append(swLog, Ev("caches.keys", "ok"))
    /\ UNCHANGED <<caches, ev, client>>

\* One caches.delete of the Promise.all settles.
CacheDeleteDone(cacheName) ==
    /\ swState = "activating"
    /\ cacheName \in pendingDeletes
    /\ caches' = Delete(caches, cacheName)
    /\ pendingDeletes' = pendingDeletes \ {cacheName}
    /\ swLog' = Append(swLog, Ev("caches.delete", cacheName))
    /\ UNCHANGED <<swState, ev, client>>

\* Mutant of ClientsClaim: clients.claim() does not wait for the deletions.
M_ClientsClaimEarly ==
    /\ swState = "activating"
    /\ swLog' = Append(swLog, Ev("clients.claim", ""))
    /\ swState' = "activated"
    /\ UNCHANGED <<caches, pendingDeletes, ev, client>>

\* Promise.all has resolved: clients.claim(), and the worker is activated.
ClientsClaim ==
    /\ swState = "activating"
    /\ pendingDeletes = {}
    /\ swLog' = Append(swLog, Ev("clients.claim", ""))
    /\ swState' = "activated"
    /\ UNCHANGED <<caches, pendingDeletes, ev, client>>

\* --------------------------------------------------- cache worker: fetch
\* Mutant of IsApi: no request is taken for an API call.
M_IsApiNever(url) == FALSE

\* event.request.url.includes('/api/'): a path segment "api" that is followed
\* by a slash.
IsApi(url) == \E i \in 1..(Len(url.path) - 1) : url.path[i] = "api"

\* The test of the second fetch listener; its respondWith comes after the one
\* of the first listener and throws, but its argument fetch(event.request) has
\* been evaluated by then.
SecondListenerFetches(req) == req.mode = "navigate"

\* Mutant of Cacheable: the type of the response is not tested.
M_CacheableAnyType(response) == response.status = 200

\* Line 75 negated: the response is one the worker stores.
Cacheable(response) == response.status = 200 /\ response.type = "basic"

\* Request e is the next one intercepted: the earlier ones were.
NextEvent(e) ==
    /\ ev[e].pc = "idle"
    /\ \A f \in 1..(e - 1) : ev[f].pc # "idle"

\* A fetch event for req: both listeners run, and caches.match of the
\* cache-first branch resolves.
FetchEvent(e, req) ==
    /\ swState = "activated"
    /\ NextEvent(e)
    /\ LET base == [IdleEv EXCEPT !.req = req,
                                  !.navFetch = SecondListenerFetches(req)]
           m == Matches(caches, req) IN
       IF IsApi(req.url)
       THEN ev' = [ev EXCEPT ![e] = [base EXCEPT !.pc = "apiFetch",
                                                 !.log = <<Ev("fetch", "pending")>>]]
       ELSE IF m # <<>>
       THEN ev' = [ev EXCEPT ![e] = [base EXCEPT !.pc = "done",
                                                 !.answer = Some(m[1]),
                                                 !.log = <<Ev("caches.match", "hit")>>]]
       ELSE ev' = [ev EXCEPT ![e] = [base EXCEPT !.pc = "fetch",
                                                 !.log = <<Ev("caches.match", "miss"),
                                                           Ev("fetch", "pending")>>]]
    /\ UNCHANGED <<swState, caches, pendingDeletes, swLog, client>>

\* Cache-first, after a miss: fetch settles.  A cacheable response is cloned,
\* caches.open(...).then(put) is started and the response is returned.
FetchDone(e) ==
    /\ ev[e].pc = "fetch"
    /\ \E o \in {None} \cup {Some(r) : r \in NetworkResponses(ev[e].req)} :
         IF o = None
         THEN ev' = [ev EXCEPT ![e] = [@ EXCEPT !.pc = "done",
                                                !.answer = Some(NetworkError),
                                                !.log = Settle(@, "fail")]]
         ELSE ev' = [ev EXCEPT ![e] =
                        [@ EXCEPT !.pc = "done", !.net = o, !.answer = o,
                                  !.put = IF Cacheable(o[1]) THEN "pending" ELSE "none",
                                  !.log = IF Cacheable(o[1])
                                          THEN Issue(Settle(@, "ok"), "cache.put")
                                          ELSE Settle(@, "ok")]]
    /\ UNCHANGED <<swState, caches, pendingDeletes, swLog, client>>

\* caches.open(CACHE_NAME) resolves and cache.put settles (it rejects for a
\* request that is not a GET); nothing waits for it.
PutDone(e) ==
    /\ ev[e].put = "pending"
    /\ IF ev[e].req.method = "GET"
       THEN /\ caches' = Put(Open(caches, CACHE_NAME), CACHE_NAME, ev[e].req.url,
                             ev[e].net[1])
            /\ ev' = [ev EXCEPT ![e] = [@ EXCEPT !.put = "stored",
                                                 !.log = Settle(@, "ok")]]
       ELSE /\ caches' = Open(caches, CACHE_NAME)
            /\ ev' = [ev EXCEPT ![e] = [@ EXCEPT !.put = "failed",
                                                 !.log = Settle(@, "throw")]]
    /\ UNCHANGED <<swState, pendingDeletes, swLog, client>>

\* Network-first: fetch settles; rejected, caches.match(event.request) answers
\* (undefined, when nothing matches, is a network error for the page).
ApiFetchDone(e) ==
    /\ ev[e].pc = "apiFetch"
    /\ \E o \in {None} \cup {Some(r) : r \in NetworkResponses(ev[e].req)} :
         LET m == Matches(caches, ev[e].req) IN
         IF o = None
         THEN ev' = [ev EXCEPT ![e] =
                        [@ EXCEPT !.pc = "done",
                                  !.answer = IF m # <<>> THEN Some(m[1])
                                             ELSE Some(NetworkError),
                                  !.log = Append(Settle(@, "fail"),
                                                 Ev("caches.match",
                                                    IF m # <<>> THEN "hit" ELSE "miss"))]]
         ELSE ev' = [ev EXCEPT ![e] = [@ EXCEPT !.pc = "done", !.net = o,
                                                !.answer = o,
                                                !.log = Settle(@, "ok")]]
    /\ UNCHANGED <<swState, caches, pendingDeletes, swLog, client>>

\* The worker is registered by a page that makes no analysis in the run.
WorkerInit ==
    /\ InitWith(0)
    /\ config = Config(FALSE, Null, Null)
    /\ swState = "parsed"
    /\ caches \in InitialCaches
    /\ pendingDeletes = {}
    /\ swLog = <<>>
    /\ ev = [e \in ReqSlots |-> IdleEv]

WorkerNext ==
    \/ InstallStart
    \/ AddAllDone
    \/ ActivateStart
    \/ \E n \in pendingDeletes : CacheDeleteDone(n)
    \/ ClientsClaim
    \/ \E e \in ReqSlots, req \in Requests : FetchEvent(e, req)
    \/ \E e \in ReqSlots : FetchDone(e)
    \/ \E e \in ReqSlots : PutDone(e)
    \/ \E e \in ReqSlots : ApiFetchDone(e)

WorkerSpec == WorkerInit /\ [][WorkerNext]_vars

\* ------------------------------------------------------------------ claims
Events(p) == {log[p][i] : i \in 1..Len(log[p])}
Called(p, name) == \E e \in Events(p) : e[1] = name
Had(p, name, outcomes) == \E e \in Events(p) : e[1] = name /\ e[2] \in outcomes
Failures == {"error", "throw", "nodata", "notok", "neterr"}
Ended(p) == op[p].pc = "done"
IsFile(p) == op[p].kind = "file"
IsText(p) == op[p].kind = "text"
StoreCalls ==
    {"storage.upload", "documents.insert", "analyses.insert", "storage.remove",
     "analyses.delete", "documents.delete"}
Deletions == {"storage.remove", "analyses.delete", "documents.delete"}

\* What invocation p created in the remote store and is still there.
ObjectLeft(p) == FilePath(p) \in storage
DocumentLeft(p) == \E d \in documents : d.id = DocumentId(p)
AnalysisLeft(p) == \E a \in analyses : a.id = AnalysisId(p)

\* C1: whenever analyze-by-file has ended with a successful analysis, the remote
\* store holds no storage object, document row or analysis row it created.
C1_NothingLeftAfterFileAnalysis ==
    \A p \in Procs :
        (IsFile(p) /\ Ended(p) /\ Had(p, "api.upload", {"ok"}))
            => ~ObjectLeft(p) /\ ~DocumentLeft(p) /\ ~AnalysisLeft(p)

\* C2: if Step 1 persisted the file and the analysis API call failed, the storage
\* object and the document row are gone when the operation has ended.
C2_PersistedFileRemovedOnApiFailure ==
    \A p \in Procs :
        (IsFile(p) /\ Ended(p) /\ Had(p, "documents.insert", {"ok"})
                   /\ Had(p, "api.upload", {"notok", "neterr"}))
            => ~ObjectLeft(p) /\ ~DocumentLeft(p)

\* The upload, the API call, the analysis-row insert and every deletion of a
\* persisting analyze-by-file succeeded: persistence ran and no call failed.
AllSucceeded(p) ==
    /\ IsFile(p) /\ Ended(p)
    /\ Had(p, "storage.upload", {"ok"})
    /\ Had(p, "api.upload", {"ok"})
    /\ \A e \in Events(p) : e[2] \notin Failures

\* C3: after an analyze-by-file in which the upload, the API call, the analysis-row
\* insert and all deletions succeeded, the three artifacts are absent, the three
\* booleans of deleteAllRecords are true and the result has no db_file_id.
C3_SuccessfulFileLeavesNothing ==
    \A p \in Procs :
        AllSucceeded(p) =>
            /\ ~ObjectLeft(p) /\ ~DocumentLeft(p) /\ ~AnalysisLeft(p)
            /\ op[p].deleteResults = Some([storage |-> TRUE, documents |-> TRUE,
                                          analyses |-> TRUE])
            /\ op[p].result # None /\ op[p].result[1].db_file_id = NoId
            /\ Had(p, "showResults", {""})

C3_Witness ==
    \E p \in Procs : AllSucceeded(p) /\ Had(p, "documents.delete", {"ok"})

\* C4: whenever analyze-by-text has ended with a successful analysis and
\* persistence enabled, neither the document row holding the text nor the
\* analysis row it created remains in the remote store.
C4_NothingLeftAfterTextAnalysis ==
    \A p \in Procs :
        (IsText(p) /\ Ended(p) /\ Had(p, "api.text", {"ok"}))
            => ~DocumentLeft(p) /\ ~AnalysisLeft(p)

\* C5: a file larger than 10 MiB is rejected with an error toast before any
\* network call and without the loading state; a file of exactly 10 MiB is
\* accepted (the operation goes on to showLoading).
C5_OversizedFileRejected ==
    \A p \in Procs :
        (IsFile(p) /\ op[p].file # NoFile) =>
            IF op[p].file.size > 10 * 1024 * 1024
            THEN Ended(p) /\ log[p] = <<Ev("showToast", "error")>>
            ELSE log[p] # <<>> /\ log[p][1] = Ev("showLoading", "")

C5_Witness ==
    \E p \in Procs :
        IsFile(p) /\ op[p].file.size > 10 * 1024 * 1024 /\ Ended(p)
                  /\ fileInput # None /\ ~loading

\* The text without the whitespace at its two ends, and whether it is empty.
AllWhitespace(t) == \A i \in 1..Len(t) : t[i].ch = " "
Stripped(t) ==
    IF AllWhitespace(t) THEN <<>>
    ELSE LET inner == {i \in 1..Len(t) : t[i].ch # " "}
             first == CHOOSE i \in inner : \A j \in inner : i <= j
             last == CHOOSE i \in inner : \A j \in inner : j <= i
         IN [i \in 1..(last - first + 1) |-> t[first + i - 1]]

\* C6: a text that is empty after trimming (whitespace only included) gets a
\* validation error, and neither the analysis API nor the store is called.
C6_BlankTextRejected ==
    \A p \in Procs :
        (IsText(p) /\ AllWhitespace(op[p].rawText))
            => Ended(p) /\ log[p] = <<Ev("showToast", "error")>>

C6_Witness ==
    \E p \in Procs :
        IsText(p) /\ Ended(p) /\ op[p].rawText # <<>> /\ AllWhitespace(op[p].rawText)

\* s is the text of the first characters of t.
IsPrefix(s, t) ==
    /\ Len(s) <= Len(t)
    /\ \A i \in 1..Len(s) :
          /\ s[i].ch = t[i].ch
          /\ IF i < Len(s) THEN s[i].n = t[i].n ELSE s[i].n <= t[i].n /\ s[i].n > 0

\* C7: for every accepted text, the text sent to the API is the first
\* min(3000, length) characters of the trimmed input, at most 3000 characters,
\* and a longer input raises no error.
C7_SentTextTruncated ==
    \A p \in Procs :
        (IsText(p) /\ ~AllWhitespace(op[p].rawText)) =>
            LET t == Stripped(op[p].rawText) IN
            /\ Len(log[p]) >= 2
            /\ log[p][1] = Ev("showLoading", "")
            /\ log[p][2][1] = "api.text"
            /\ IsPrefix(op[p].sentText, t)
            /\ TextLen(op[p].sentText) = Min(3000, TextLen(t))
            /\ TextLen(op[p].sentText) <= 3000

C7_Witness ==
    \E p \in Procs :
        /\ IsText(p) /\ Had(p, "api.text", {"ok"})
        /\ TextLen(Stripped(op[p].rawText)) > 3000
        /\ TextLen(op[p].sentText) = 3000

\* Persistence is disabled or misconfigured: the flag is false, the URL or the key
\* is absent, or one of them is a placeholder.
Misconfigured ==
    \/ ~config.databaseEnabled
    \/ config.supabaseUrl \in {Null, "placeholder"}
    \/ config.supabaseKey \in {Null, "placeholder"}

\* C8: with persistence disabled or misconfigured, initSupabase returns false
\* without raising and supabaseInitialized stays false; analyze-by-file then
\* makes no remote store call and shows the result exactly when the API
\* returned OK.
C8_MisconfiguredIsAdditive ==
    Misconfigured =>
        /\ ~supabaseInitialized
        /\ init.ret \in {"none", "false"}
        /\ init.pc \in {"start", "loadLib", "done"}
        /\ init.pc = "done" => init.ret = "false"
        /\ \A p \in Procs :
              IsFile(p) =>
                  /\ \A c \in StoreCalls : ~Called(p, c)
                  /\ (Ended(p) /\ Called(p, "api.upload"))
                        => (Had(p, "showResults", {""}) <=> Had(p, "api.upload", {"ok"}))
                  /\ (Ended(p) /\ Had(p, "api.upload", {"ok"}))
                        => op[p].result = Some(FilePayload(op[p].file))

C8_Witness ==
    /\ Misconfigured /\ config.databaseEnabled
    /\ init = [pc |-> "done", ret |-> "false"]
    /\ \E p \in Procs : IsFile(p) /\ Ended(p) /\ Had(p, "showResults", {""})

\* The pre-analysis upload of invocation p failed.
UploadFailed(p) ==
    \/ Had(p, "storage.upload", Failures)
    \/ (IsFile(p) /\ Had(p, "documents.insert", Failures))

\* C9: when uploadToDatabase fails, analyze-by-file continues: dbFileId stays
\* null, the analysis API is still called, and neither an analysis-row insert
\* nor any deletion is attempted.
C9_UploadFailureIsNotFatal ==
    \A p \in Procs :
        UploadFailed(p) =>
            /\ op[p].dbFileId = NoId
            /\ Called(p, "api.upload")
            /\ ~Called(p, "analyses.insert")
            /\ \A c \in Deletions : ~Called(p, c)
            /\ (Ended(p) /\ Had(p, "api.upload", {"ok"})) => Had(p, "showResults", {""})

C9_Witness ==
    \E p \in Procs :
        /\ Had(p, "storage.upload", {"ok"}) /\ UploadFailed(p)
        /\ Ended(p) /\ Had(p, "api.upload", {"ok"})

\* Invocation p resumes after its analysis API call failed.
ApiFailureStep(p) ==
    /\ op[p].pc = "apiUpload"
    /\ op'[p].pc # "apiUpload"
    /\ Had(p, "api.upload", {"notok", "neterr"})'

\* C10: when the analysis API call of analyze-by-file fails, the operation ends
\* with an error toast, the loading state is cleared, no result is shown
\* (currentAnalysisData is unchanged) and no analysis-row insert is attempted.
C10_ApiFailureEndsOperation ==
    [][\A p \in Procs :
          ApiFailureStep(p) =>
              /\ Ended(p)'
              /\ ~loading'
              /\ currentAnalysisData' = currentAnalysisData
              /\ log'[p][Len(log'[p])] = Ev("showToast", "error")
              /\ ~Called(p, "showResults")'
              /\ ~Called(p, "analyses.insert")']_vars

C10_Witness ==
    \E p \in Procs :
        /\ IsFile(p) /\ Ended(p) /\ Had(p, "api.upload", {"notok", "neterr"})
        /\ Had(p, "documents.insert", {"ok"})

\* C11: in analyze-by-file, when the analysis-row insert fails, the operation
\* makes no deletion call (storage remove, analyses delete, documents delete).
C11_NoDeletionAfterFailedInsert ==
    \A p \in Procs :
        (IsFile(p) /\ Had(p, "analyses.insert", Failures))
            => /\ \A c \in Deletions : ~Called(p, c)
               /\ ~Called(p, "delay")
               /\ Ended(p)

C11_Witness ==
    \E p \in Procs :
        /\ IsFile(p) /\ Ended(p) /\ Had(p, "analyses.insert", Failures)
        /\ Had(p, "documents.insert", {"ok"}) /\ Had(p, "showResults", {""})

\* A call of invocation p that has settled, whatever its outcome.
Settled(p, name) == Had(p, name, CallOutcomes)

\* C12: in deleteAllRecords each of the three deletions is attempted when its
\* path or id is present, whatever the outcome (returned error or thrown
\* exception) of the deletions before it, and each boolean of the returned
\* results is true exactly when that deletion was attempted and completed
\* without error.
C12_DeletionsAreIndependent ==
    \A p \in Procs :
        (IsFile(p) /\ op[p].deleteResults # None) =>
            LET res == op[p].deleteResults[1] IN
            /\ op[p].storagePath # NoId => Called(p, "storage.remove")
            /\ (Settled(p, "storage.remove") /\ op[p].analysisDbId # NoId)
                  => Called(p, "analyses.delete")
            /\ (Settled(p, "analyses.delete") /\ op[p].dbFileId # NoId)
                  => Called(p, "documents.delete")
            /\ res.storage <=> Had(p, "storage.remove", {"ok"})
            /\ res.analyses <=> Had(p, "analyses.delete", {"ok"})
            /\ res.documents <=> Had(p, "documents.delete", {"ok"})
            /\ Ended(p) => \A c \in Deletions : Settled(p, c)

C12_Witness ==
    \E p \in Procs :
        /\ IsFile(p) /\ Ended(p)
        /\ Had(p, "storage.remove", {"throw"})
        /\ Had(p, "analyses.delete", {"error"})
        /\ op[p].deleteResults = Some([storage |-> FALSE, documents |-> TRUE,
                                       analyses |-> FALSE])

\* C13: in the cleanup of analyze-by-text, after the analysis-row deletion
\* failed (returned error or thrown exception) the document-row deletion is
\* still attempted.
C13_TextCleanupContinues ==
    \A p \in Procs :
        (IsText(p) /\ Had(p, "analyses.delete", {"error", "throw"}))
            => Called(p, "documents.delete")

\* The calls named `a` of invocation p all come, settled, before its calls named b.
SettledBefore(p, a, b) ==
    \A j \in 1..Len(log[p]) :
        log[p][j][1] = b =>
            \E i \in 1..(j - 1) : log[p][i][1] = a /\ log[p][i][2] \in CallOutcomes

\* C14: in every cleanup the analysis row's delete is issued and has completed
\* before the delete of the document row is issued; in the file flow the
\* storage removal comes before both; and a document row is never gone while
\* the delete of its analysis row has not been attempted.
C14_AnalysisDeletedBeforeDocument ==
    \A p \in Procs :
        /\ SettledBefore(p, "analyses.delete", "documents.delete")
        /\ IsFile(p) => /\ SettledBefore(p, "storage.remove", "analyses.delete")
                        /\ SettledBefore(p, "storage.remove", "documents.delete")
        /\ (Had(p, "documents.insert", {"ok"}) /\ ~DocumentLeft(p))
              => Settled(p, "analyses.delete")

C14_Witness ==
    \E p \in Procs :
        /\ IsFile(p) /\ Had(p, "storage.remove", {"throw"})
        /\ Had(p, "analyses.delete", {"error"})
        /\ Had(p, "documents.delete", {"ok"}) /\ ~DocumentLeft(p)

\* C15: every payload analyze-by-file hands to showResults (and keeps in
\* currentAnalysisData) carries none of db_file_id, file_url, storage_path and
\* analysis_db_id, on every path on which a result is shown.
C15_ShownPayloadHasNoRemoteIds ==
    \A p \in Procs :
        (IsFile(p) /\ Called(p, "showResults")) =>
            LET shown == op[p].result[1] IN
            /\ shown.db_file_id = NoId
            /\ shown.file_url = NoId
            /\ shown.storage_path = NoId
            /\ shown.analysis_db_id = NoId

\* The analysis API answered invocation p with an OK status.
ApiOk(p) == Had(p, "api.upload", {"ok"}) \/ Had(p, "api.text", {"ok"})
\* Invocation p has ended by showing its result and clearing the loading state.
Shown(p) ==
    /\ Ended(p)
    /\ \E i \in 1..(Len(log[p]) - 1) :
          log[p][i] = Ev("showResults", "") /\ log[p][i + 1] = Ev("hideLoading", "")

\* C16: in both flows, whenever the analysis API returned OK the result is
\* eventually shown (showResults called, loading cleared), whatever the outcome
\* of every store insert and deletion.  The call history only grows, so an OK
\* answer stays one: from some point on every invocation the API answered OK
\* has shown its result.
C16_ResultEventuallyShown ==
    <>[](\A p \in Procs : ApiOk(p) => Shown(p))

C16_Witness ==
    \E p \in Procs :
        /\ ApiOk(p) /\ Shown(p)
        /\ \E c \in StoreCalls : Had(p, c, Failures)
        /\ \E c \in Deletions : Had(p, c, {"throw"})

\* The external calls of analyze-by-file, in the order of the pipeline.
FilePipeline ==
    <<"storage.upload", "documents.insert", "api.upload", "analyses.insert", "delay",
      "storage.remove", "analyses.delete", "documents.delete">>
External(name) == \E k \in 1..Len(FilePipeline) : FilePipeline[k] = name
Rank(name) == CHOOSE k \in 1..Len(FilePipeline) : FilePipeline[k] = name
\* The external calls of invocation p, in the order it made them.
ExternalCalls(p) == SelectSeq(log[p], LAMBDA e : External(e[1]))

\* C23: in an analyze-by-file the external calls are made in the order storage
\* upload, documents insert, API POST, analyses insert, delay, deletions, each
\* issued when the one before has completed: at most the last call is in
\* flight, no deletion comes before the delay has elapsed, and with
\* persistence succeeding the calls are exactly these eight.
C23_CallsStrictlySequential ==
    \A p \in Procs :
        IsFile(p) =>
            LET calls == ExternalCalls(p) IN
            /\ \A i, j \in 1..Len(calls) :
                  i < j => /\ Rank(calls[i][1]) < Rank(calls[j][1])
                           /\ calls[i][2] # "pending"
            /\ \A i \in 1..Len(calls) :
                  calls[i][1] \in Deletions
                      => \E j \in 1..(i - 1) : calls[j] = Ev("delay", "ok")
            /\ AllSucceeded(p) =>
                  /\ Len(calls) = Len(FilePipeline)
                  /\ \A k \in 1..Len(calls) : calls[k] = Ev(FilePipeline[k], "ok")

C23_Witness ==
    \E p \in Procs :
        /\ IsFile(p) /\ op[p].pc = "documentsDelete"
        /\ Len(ExternalCalls(p)) = Len(FilePipeline)
        /\ \A k \in 1..(Len(FilePipeline) - 1) : ExternalCalls(p)[k][2] = "ok"

\* C26: in analyze-by-text the document row holds the whole trimmed input, not
\* the 3000-character prefix sent to the API (for a longer input the two
\* differ), and the persisted text_length is the untruncated length.
C26_WholeTextPersisted ==
    \A p \in Procs :
        IsText(p) =>
            LET whole == Stripped(op[p].rawText) IN
            /\ \A d \in documents :
                  d.id = DocumentId(p) =>
                      /\ d.text_content = whole
                      /\ TextLen(d.text_content) = TextLen(whole)
                      /\ TextLen(whole) > 3000 =>
                            /\ d.text_content # op[p].sentText
                            /\ TextLen(op[p].sentText) = 3000
            /\ \A a \in analyses :
                  a.id = AnalysisId(p) => a.text_length = TextLen(whole)

C26_Witness ==
    \E p \in Procs :
        /\ IsText(p) /\ DocumentLeft(p) /\ AnalysisLeft(p)
        /\ TextLen(Stripped(op[p].rawText)) > 3000

\* Invocation p calls showResults in this step.
ShowStep(p) == ~Called(p, "showResults") /\ Called(p, "showResults")'

\* C25: overlapping analyze operations are not coordinated: each showResults
\* overwrites currentAnalysisData with its own result and nothing else writes
\* it, so after both have finished it is the result of the operation whose
\* showResults ran last, whichever was started last.
C25_LastShowResultsWins ==
    [][/\ \A p \in Procs :
             ShowStep(p) => currentAnalysisData' = Some(op'[p].result[1])
       /\ currentAnalysisData' # currentAnalysisData
             => \E p \in Procs : ShowStep(p)]_vars

C25_Witness ==
    /\ Ended(1) /\ Ended(2)
    /\ Called(1, "showResults") /\ Called(2, "showResults")
    /\ op[1].result # op[2].result
    /\ currentAnalysisData = op[1].result

\* Invocation p ends in this step, having called showLoading.
EndStep(p) == ~Ended(p) /\ Ended(p)' /\ Called(p, "showLoading")'

\* C27: an invocation that called showLoading calls hideLoading before it
\* ends, on every path, and the indicator is hidden when it ends, whether or
\* not another invocation is still in flight.
C27_LoadingHiddenAtEnd ==
    [][\A p \in Procs :
          EndStep(p) =>
              /\ \E i, j \in 1..Len(log'[p]) :
                    /\ i < j
                    /\ log'[p][i] = Ev("showLoading", "")
                    /\ log'[p][j] = Ev("hideLoading", "")
              /\ ~loading']_vars

C27_Witness ==
    \E p, q \in Procs :
        /\ Ended(p) /\ Called(p, "hideLoading")
        /\ Called(q, "showLoading") /\ ~Ended(q)
        /\ ~loading

\* Invocation p (an analyze-by-file) takes a step.
FileStep(p) == IsFile(p)' /\ log'[p] # log[p]

\* C28: analyze-by-file clears the file selection (currentFile, the file
\* input, the enabled upload button) in the step that shows the result of a
\* successful analysis, whatever file is selected then, and leaves it
\* unchanged in every other step, the failure paths included.
C28_SelectionClearedOnlyOnSuccess ==
    [][\A p \in Procs :
          FileStep(p) =>
              IF ShowStep(p)
              THEN /\ Had(p, "api.upload", {"ok"})'
                   /\ currentFile' = None /\ fileInput' = None /\ uploadButtonDisabled'
              ELSE page' = page]_vars

C28_Witness ==
    \E p \in Procs :
        /\ IsFile(p) /\ Ended(p) /\ Had(p, "api.upload", {"ok"})
        /\ \E i \in 1..Len(log[p]) :
              log[p][i][1] = "clearFile" /\ log[p][i][2] \notin {"", op[p].file.name}
        /\ currentFile = None /\ fileInput = None /\ uploadButtonDisabled

\* ---------------------------------------------------- cache worker claims
CalledSw(name) == \E i \in 1..Len(swLog) : swLog[i][1] = name
HadSw(name, outcome) == \E i \in 1..Len(swLog) : swLog[i] = Ev(name, outcome)
CalledEv(e, name) == \E i \in 1..Len(ev[e].log) : ev[e].log[i][1] = name
Intercepted(e) == ev[e].pc # "idle"
Answered(e) == ev[e].pc = "done"
\* The entries of the cache named by the current version.
CurrentEntries ==
    UNION {caches[i].entries : i \in {j \in 1..Len(caches) : caches[j].name = CACHE_NAME}}
InManifest(url) == \E i \in 1..Len(urlsToCache) : urlsToCache[i] = url
\* The request's URL is one of the analysis API: its path starts with /api/.
ApiRequest(req) == Len(req.url.path) > 1 /\ req.url.path[1] = "api"
\* Handling request e made a network call.
NetworkCalled(e) == CalledEv(e, "fetch") \/ ev[e].navFetch

C18_OnlyCurrentCacheRemains ==
    swState = "activated" =>
        /\ \A i \in 1..Len(caches) : caches[i].name = CACHE_NAME
        /\ Has(caches, CACHE_NAME)
        /\ ~HadSw("caches.delete", CACHE_NAME)
        /\ \A i \in 1..Len(urlsToCache) :
              \E en \in CurrentEntries : en.url = urlsToCache[i]

C18_Witness ==
    /\ swState = "activated"
    /\ HadSw("caches.delete", OLD_CACHE_NAME)
    /\ \E en \in CurrentEntries : en.response.body = "stale"

\* C19: a request for an API URL is answered network-first: the network fetch
\* is the first call, its response is the answer when it succeeds (a matching
\* cache entry or not), the cache is consulted only after the fetch failed, and
\* no API response is written to a cache.
C19_ApiNetworkFirst ==
    /\ \A e \in ReqSlots :
          (Intercepted(e) /\ ApiRequest(ev[e].req)) =>
              /\ ev[e].log[1][1] = "fetch"
              /\ ev[e].net # None
                    => ev[e].answer = ev[e].net /\ ~CalledEv(e, "caches.match")
              /\ CalledEv(e, "caches.match") => ev[e].log[1] = Ev("fetch", "fail")
              /\ ev[e].put = "none" /\ ~CalledEv(e, "cache.put")
    /\ \A i \in 1..Len(caches) :
          \A en \in caches[i].entries :
              ApiRequest(Req(en.url, "GET", "cors")) => en \in OldEntries

C19_Witness ==
    \E e \in ReqSlots :
        /\ Answered(e) /\ ApiRequest(ev[e].req)
        /\ Matches(caches, ev[e].req) # <<>>
        /\ ev[e].net # None /\ ev[e].answer = ev[e].net
        /\ ev[e].answer # Some(Matches(caches, ev[e].req)[1])

\* Request e missed the cache and the network answered it with a same-origin 200.
MissThenNormal(e) ==
    /\ Answered(e) /\ ~ApiRequest(ev[e].req) /\ ev[e].req.method = "GET"
    /\ ev[e].log[1] = Ev("caches.match", "miss")
    /\ ev[e].net # None /\ ev[e].net[1].status = 200 /\ ev[e].net[1].type = "basic"

\* C20: when a static-asset request missed the cache and the network answered
\* with a same-origin 200, a copy of the response is in the current cache by
\* the time the response is returned, and an identical request intercepted
\* after that answer is a cache hit.
C20_StoredBeforeReturned ==
    [][\A e \in ReqSlots :
          MissThenNormal(e)' =>
              /\ Entry(ev'[e].req.url, ev'[e].net[1]) \in CurrentEntries'
              /\ \A f \in ReqSlots :
                    (/\ MissThenNormal(e)
                     /\ ev[f].pc = "idle" /\ ev'[f].pc # "idle"
                     /\ ev'[f].req = ev[e].req)
                        => ev'[f].log = <<Ev("caches.match", "hit")>>]_vars

\* The cached root document: what caches.match('/') resolves to.
CachedRoot == Matches(caches, Req(Url(Self, <<>>), "GET", "navigate"))

\* C21: a navigation request whose network fetch failed is answered with the
\* cached root document '/', also when the requested URL is not in the cache.
C21_NavigationFallsBackToRoot ==
    \A e \in ReqSlots :
        (Answered(e) /\ ev[e].req.mode = "navigate"
                     /\ \E i \in 1..Len(ev[e].log) : ev[e].log[i] = Ev("fetch", "fail"))
            => CachedRoot # <<>> /\ ev[e].answer = Some(CachedRoot[1])

\* The entries the install stores: one for each URL of the manifest.
InstallEntries == AddAll(<<[name |-> CACHE_NAME, entries |-> {}]>>, CACHE_NAME,
                         urlsToCache)[1].entries

\* C22: a network response whose type is not 'basic' or whose status is not
\* 200 is returned unchanged and not written to the cache: every entry the
\* fetch handler adds is a same-origin 200 response.
C22_OnlyNormalResponsesCached ==
    /\ \A e \in ReqSlots :
          (ev[e].net # None /\ ~(ev[e].net[1].status = 200 /\ ev[e].net[1].type = "basic"))
              => /\ ev[e].answer = ev[e].net
                 /\ ev[e].put = "none"
                 /\ ~CalledEv(e, "cache.put")
    /\ \A i \in 1..Len(caches) :
          \A en \in caches[i].entries :
              en \notin (OldEntries \cup InstallEntries)
                  => /\ en.response.status = 200 /\ en.response.type = "basic"
                     /\ en.url.origin = Self

C22_Witness ==
    /\ \E e \in ReqSlots :
          /\ Answered(e) /\ ev[e].net # None /\ ev[e].answer = ev[e].net
          /\ ev[e].net[1].type \in {"cors", "opaque"}
    /\ \E en \in CurrentEntries : en \notin (OldEntries \cup InstallEntries)

\* Position of the first call `name` in the worker's log (0: not called).
PosSw(name) ==
    IF CalledSw(name) THEN CHOOSE i \in 1..Len(swLog) :
                               /\ swLog[i][1] = name
                               /\ \A j \in 1..(i - 1) : swLog[j][1] # name
    ELSE 0

\* C24: skipWaiting is called only after all manifest URLs were cached,
\* clients.claim only after every deletion of an old cache has completed, and
\* when caching the manifest fails the install fails without skipWaiting.
C24_LifecycleCallsOrdered ==
    /\ CalledSw("skipWaiting") =>
          /\ \E i \in 1..(PosSw("skipWaiting") - 1) : swLog[i] = Ev("cache.addAll", "ok")
          /\ InstallEntries \subseteq CurrentEntries
    /\ CalledSw("clients.claim") =>
          /\ pendingDeletes = {}
          /\ \A i \in 1..Len(swLog) :
                swLog[i][1] = "caches.delete" => i < PosSw("clients.claim")
          /\ \A i \in 1..Len(caches) : caches[i].name = CACHE_NAME
    /\ HadSw("cache.addAll", "fail") =>
          /\ swState = "redundant"
          /\ ~CalledSw("skipWaiting") /\ ~CalledSw("clients.claim")
    /\ swState \in {"installed", "activating", "activated"} => CalledSw("skipWaiting")

C24_Witness ==
    /\ CalledSw("clients.claim")
    /\ HadSw("caches.delete", OLD_CACHE_NAME)
    /\ \A en \in CurrentEntries : en.response.body = "fresh"

====
